---------------------------- MODULE Spec2Model ----------------------------
(***************************************************************************)
(* A model of funcgpt: the completion engine (gpt.py: stream, answer) and  *)
(* the function compiler (wrapper.py: create_generic_wrapper).             *)
(*                                                                         *)
(* StreamSpec follows one call of stream(): the generator object, the      *)
(* connection it owns and the line-by-line event parser.                   *)
(* WrapSpec follows one application of create_generic_wrapper and the      *)
(* calls made to the callable it returns.                                  *)
(***************************************************************************)
EXTENDS Integers, Sequences, FiniteSets, TLC

VARIABLES
    pc,          \* stream: position of the generator
    connOpen,    \* stream: the response object `f` of `with urlopen(...)` is open
    data,        \* stream: local variable `data`
    lines,       \* stream: every value readline() has returned so far, in order
    yielded,     \* stream: every value the generator has yielded so far, in order
    loadsArgs,   \* stream: every text handed to json.loads so far, in order
    raised,      \* stream: the exception that left the generator, or "none"
    func,        \* wrap: the function given to create_generic_wrapper
    wrapArgs,    \* wrap: the model / temperature / max_tokens given with it
    wrapper,     \* wrap: the closure create_generic_wrapper returned
    wrapRaised,  \* wrap: the exception create_generic_wrapper raised, or "none"
    engineLog,   \* wrap: arguments of every engine invocation so far, in order
    calls,       \* wrap: number of calls made to the wrapper so far
    lastCall     \* wrap: argument, token count and outcome of the latest call

streamVars == <<pc, connOpen, data, lines, yielded, loadsArgs, raised>>
wrapVars   == <<func, wrapArgs, wrapper, wrapRaised, engineLog, calls, lastCall>>
vars       == <<pc, connOpen, data, lines, yielded, loadsArgs, raised,
                func, wrapArgs, wrapper, wrapRaised, engineLog, calls, lastCall>>

(***************************************************************************)
(* Bounds                                                                  *)
(***************************************************************************)
MaxLines == 4     \* lines of response body before end of input
MaxCalls == 2     \* invocations of one wrapped callable

(***************************************************************************)
(* Response lines.  A line is prefix \o rest \o term; readline() returns   *)
(* the empty string at end of input.                                       *)
(***************************************************************************)
LF   == "\n"
CRLF == "\r\n"

DeltaHi      == "{\"choices\":[{\"delta\":{\"content\":\"Hi\"}}]}"
DeltaYo      == "{\"choices\":[{\"delta\":{\"content\":\"Yo\"}}]}"
DeltaRole    == "{\"choices\":[{\"delta\":{\"role\":\"assistant\"}}]}"
DoneText     == "[DONE]"
BrokenJson   == "{\"choices\":"

Payloads == {DeltaHi, DeltaYo, DeltaRole, DoneText, BrokenJson, ""}

Line(p, r, t) == [prefix |-> p, rest |-> r, term |-> t]

EOF == Line("", "", "")

DataLines  == {Line("data: ", r, t) : r \in Payloads, t \in {LF, CRLF}}
BlankLines == {Line("", "", t) : t \in {LF, CRLF}}
NoiseLines == {Line("", ": keep-alive", LF)}

BodyLines == DataLines \cup BlankLines \cup NoiseLines

(***************************************************************************)
(* gpt.py:20-22, the two line patterns.  `.` matches a carriage return, so *)
(* the greedy group of match_data keeps the "\r" of a "\r\n" terminator;   *)
(* with a lone "\r" or "\n" terminator the group is the bare payload.      *)
(***************************************************************************)
Terminators == {"\r\n", "\r", "\n"}

match_data(l) ==
    IF l.prefix = "data: " /\ l.term \in Terminators
    THEN [matched |-> TRUE,
          group   |-> IF l.term = "\r\n" THEN l.rest \o "\r" ELSE l.rest]
    ELSE [matched |-> FALSE, group |-> ""]

match_empty_line(l) ==
    l.prefix = "" /\ l.rest = "" /\ l.term \in Terminators

(***************************************************************************)
(* json.loads followed by body["choices"][0]["delta"] (gpt.py:94,96) on    *)
(* the texts of the model.  JSON allows trailing white space, so a text    *)
(* with a trailing "\r" decodes like the text without it; every other text *)
(* raises JSONDecodeError.  A delta is a dict: a function on its keys.     *)
(***************************************************************************)
JsonDocs ==
    { [text |-> DeltaHi,   delta |-> [content |-> "Hi"]],
      [text |-> DeltaYo,   delta |-> [content |-> "Yo"]],
      [text |-> DeltaRole, delta |-> [role |-> "assistant"]] }

Decodes(s) == \E d \in JsonDocs : s \in {d.text, d.text \o "\r"}

loads(s) == (CHOOSE d \in JsonDocs : s \in {d.text, d.text \o "\r"}).delta

(***************************************************************************)
(* Leaving the `with urlopen(request) as f` block (gpt.py:71) closes f,    *)
(* whether the block is left by break, by an exception or by the           *)
(* GeneratorExit that close() raises at the suspended yield.               *)
(***************************************************************************)
with_exit_noop(open) == open

with_exit(open) == FALSE

(***************************************************************************)
(* One iteration of `while True` (gpt.py:75-103) after readline() has      *)
(* returned l, with d the value of `data`.  The result names how the       *)
(* iteration ends (continue / break / raise / yield), the new value of     *)
(* `data`, the text handed to loads (if any) and the fragment yielded.     *)
(***************************************************************************)
Outcome(k, d, parsed, frag) ==
    [kind |-> k, data |-> d, parsed |-> parsed, frag |-> frag]

\* gpt.py:79-82
scan_for_data(l) ==
    IF match_data(l).matched
    THEN Outcome("continue", match_data(l).group, <<>>, <<>>)
    ELSE Outcome("continue", "", <<>>, <<>>)

\* gpt.py:85-87
reset_on_non_blank_recapture(d, l) ==
    IF match_data(l).matched
    THEN Outcome("continue", match_data(l).group, <<>>, <<>>)
    ELSE Outcome("continue", d, <<>>, <<>>)

reset_on_non_blank(d, l) == Outcome("continue", "", <<>>, <<>>)

\* gpt.py:90-103
finalize_event_stop_on_no_content(d) ==
    IF d = "[DONE]"
    THEN Outcome("break", d, <<>>, <<>>)
    ELSE IF ~Decodes(d)
         THEN Outcome("raise", d, <<d>>, <<>>)
         ELSE IF "content" \notin DOMAIN loads(d)
              THEN Outcome("break", "", <<d>>, <<>>)
              ELSE Outcome("yield", "", <<d>>, <<loads(d)["content"]>>)

finalize_event(d) ==
    IF d = "[DONE]"
    THEN Outcome("break", d, <<>>, <<>>)
    ELSE IF ~Decodes(d)
         THEN Outcome("raise", d, <<d>>, <<>>)
         ELSE IF "content" \notin DOMAIN loads(d)
              THEN Outcome("continue", "", <<d>>, <<>>)
              ELSE Outcome("yield", "", <<d>>, <<loads(d)["content"]>>)

loop_iteration(d, l) ==
    IF d = ""
    THEN scan_for_data(l)
    ELSE IF ~match_empty_line(l)
         THEN reset_on_non_blank(d, l)
         ELSE finalize_event(d)

(***************************************************************************)
(* Texts of the function compiler.  A text is a sequence of parts and      *)
(* concatenation is \o.  The encoder is an opaque collaborator: PartTokens *)
(* fixes how many token ids encode() gives each part, and a text encodes   *)
(* to the sum over its parts.                                              *)
(***************************************************************************)
Preamble   == <<"You should answer to inputs according to the following specification:\n\n">>
BoolSuffix == <<"\n\nAnswer with either true or false without including any other text. If no definitive answer can be given, answer false.">>
TextSuffix == <<"\n\nAnswer with only what was requested without including any other text.">>

EchoDoc      == <<"Echo positively.">>
IndentedDoc  == <<"\n    ", "Echo positively.", "\n    ">>
EmptyDoc     == <<>>

PartTokens ==
    [p \in {Preamble[1], BoolSuffix[1], TextSuffix[1], "Echo positively.",
            "\n    ", "hi", "hi there", "lorem-3540", "lorem-3541", "lorem-7200",
            "<|im_start|>", "<|im_end|>", "<|im_sep|>", "\n", "",
            "system", "user", "assistant"} |->
        CASE p = Preamble[1]   -> 14
          [] p = BoolSuffix[1] -> 25
          [] p = TextSuffix[1] -> 14
          [] p = "Echo positively." -> 3
          [] p = "\n    "      -> 1
          [] p = "hi"          -> 1
          [] p = "hi there"    -> 2
          [] p = "lorem-3540"  -> 3540
          [] p = "lorem-3541"  -> 3541
          [] p = "lorem-7200"  -> 7200
          [] p = ""            -> 0
          [] OTHER             -> 1]

RECURSIVE encode_len(_)
encode_len(text) ==
    IF text = <<>> THEN 0 ELSE PartTokens[Head(text)] + encode_len(Tail(text))

(***************************************************************************)
(* tokentools.py:14-32, the markers of each model.                         *)
(***************************************************************************)
Models == {"gpt-3.5-turbo", "gpt-4"}

MSG_SEP  == [m \in Models |-> IF m = "gpt-3.5-turbo" THEN "\n" ELSE ""]
IM_SEP   == [m \in Models |-> IF m = "gpt-3.5-turbo" THEN "\n" ELSE "<|im_sep|>"]
IM_START == [m \in Models |-> "<|im_start|>"]
IM_END   == [m \in Models |-> "<|im_end|>"]

\* tokentools.py:96-124: the rendered prompt, as a text
RECURSIVE join_pieces(_, _)
join_pieces(pieces, sep) ==
    IF Len(pieces) = 1 THEN Head(pieces)
    ELSE Head(pieces) \o <<sep>> \o join_pieces(Tail(pieces), sep)

serialize_to_gpt(messages, model) ==
    LET piece(i) == <<IM_START[model], messages[i].role, IM_SEP[model]>>
                    \o messages[i].content \o <<IM_END[model]>>
        pieces == [i \in 1..Len(messages) |-> piece(i)]
                  \o << <<IM_START[model], "assistant", IM_SEP[model]>> >>
    IN  join_pieces(pieces, MSG_SEP[model])

\* tokentools.py:127-139
get_token_count(messages, model) == encode_len(serialize_to_gpt(messages, model))

(***************************************************************************)
(* gpt.py:106-159, answer(): one round trip.  The response body is         *)
(* choices[0] = [finish_reason, content]; content is a sequence of         *)
(* characters.                                                             *)
(***************************************************************************)
Contents ==
    { <<"T","r","u","e",".">>,
      <<"N","o",","," ","f","a","l","s","e",".">>,
      <<"u","n","s","u","r","e">>,
      <<>>,
      <<"t","r","u","e">>,
      <<"n","o","t"," ","t","R","U","e">>,
      <<"t","r","u"," ","e">> }

Responses == [finish_reason : {"stop", "length"}, content : Contents]

answer_ignore_finish(response) ==
    [raised |-> "none", text |-> response.content]

answer(response) ==
    IF response.finish_reason = "length"
    THEN [raised |-> "OverflowError", text |-> <<>>]
    ELSE [raised |-> "none", text |-> response.content]

\* str.lower() and the `in` test of wrapper.py:62-63
UpperToLower ==
    ("T" :> "t") @@ ("R" :> "r") @@ ("U" :> "u") @@ ("E" :> "e") @@ ("N" :> "n")

lower_char(c) == IF c \in DOMAIN UpperToLower THEN UpperToLower[c] ELSE c

lower(text) == [i \in 1..Len(text) |-> lower_char(text[i])]

contains(pat, text) ==
    \E i \in 1..(Len(text) - Len(pat) + 1) : SubSeq(text, i, i + Len(pat) - 1) = pat

bool_of_answer_case_sensitive(text) == contains(<<"t","r","u","e">>, text)

bool_of_answer(text) == contains(<<"t","r","u","e">>, lower(text))

(***************************************************************************)
(* wrapper.py:19-108, create_generic_wrapper.                              *)
(***************************************************************************)
MAX_TOKENS == [m \in Models |-> IF m = "gpt-3.5-turbo" THEN 4096 ELSE 8192]

\* int(MAX_TOKENS[model] * 0.875), wrapper.py:16,88
default_max_tokens(model) == (MAX_TOKENS[model] * 875) \div 1000

\* textwrap.dedent(fdoc).strip() on the docstrings of the model
dedent_strip(doc) == IF doc = IndentedDoc THEN EchoDoc ELSE doc

\* wrapper.py:80-84
system_role_always_system(model) == "system"

system_role(model) == IF model = "gpt-3.5-turbo" THEN "user" ELSE "system"

\* wrapper.py:69-78
instructions_of(doc, ret) ==
    Preamble \o dedent_strip(doc)
        \o (IF ret = "bool" THEN BoolSuffix ELSE TextSuffix)

\* wrapper.py:93-96
build_messages(systemRole, instructions, message) ==
    << [role |-> systemRole, content |-> instructions],
       [role |-> "user", content |-> message] >>

\* wrapper.py:98
over_budget_inclusive(count, max_tokens) == count >= max_tokens

over_budget(count, max_tokens) == count > max_tokens

Docstrings == {EchoDoc, IndentedDoc, EmptyDoc}

\* a function: __doc__ (None when hasDoc is false) and its return annotation
\* ("empty" is inspect.Signature.empty, a function without one)
Functions ==
    [hasDoc : {TRUE}, doc : Docstrings,
     ret : {"str", "Iterator[str]", "bool", "int", "empty"}]
    \cup
    [hasDoc : {FALSE}, doc : {EmptyDoc}, ret : {"str", "int"}]

MaxTokensChoices ==
    {[given |-> FALSE, value |-> 0], [given |-> TRUE, value |-> 0],
     [given |-> TRUE, value |-> 45]}

WrapArguments == [model : Models, temperature : {0}, max_tokens : MaxTokensChoices]

UserMessages ==
    {<<"hi">>, <<"hi there">>, <<"lorem-3540">>, <<"lorem-3541">>, <<"lorem-7200">>}

NoWrapper == [made |-> FALSE]

NoCall == [made |-> FALSE]

\* the part of the state a specification leaves alone
StreamIdle ==
    /\ pc = "created" /\ connOpen = FALSE /\ data = "" /\ lines = <<>>
    /\ yielded = <<>> /\ loadsArgs = <<>> /\ raised = "none"

WrapIdle ==
    /\ func = [hasDoc |-> FALSE, doc |-> EmptyDoc, ret |-> "str"]
    /\ wrapArgs = [model |-> "gpt-4", temperature |-> 0,
                   max_tokens |-> [given |-> FALSE, value |-> 0]]
    /\ wrapper = NoWrapper /\ wrapRaised = "none" /\ engineLog = <<>>
    /\ calls = 0 /\ lastCall = NoCall

WrapInit ==
    /\ func \in Functions
    /\ wrapArgs \in WrapArguments
    /\ wrapper = NoWrapper
    /\ wrapRaised = "none"
    /\ engineLog = <<>>
    /\ calls = 0
    /\ lastCall = NoCall
    /\ StreamIdle

\* wrapper.py:45-66: the two checks made on f
wrap_rejects(f) ==
    \/ ~f.hasDoc
    \/ f.ret \notin {"str", "Iterator[str]", "bool"}

Wrap ==
    /\ ~wrapper.made
    /\ wrapRaised = "none"
    /\ IF wrap_rejects(func)
       THEN /\ wrapRaised' = "ValueError"
            /\ UNCHANGED wrapper
       ELSE /\ wrapper' =
                 [made         |-> TRUE,
                  engine       |-> CASE func.ret = "str"           -> "answer"
                                     [] func.ret = "Iterator[str]" -> "stream"
                                     [] func.ret = "bool"          -> "bool",
                  instructions |-> instructions_of(func.doc, func.ret),
                  systemRole   |-> system_role(wrapArgs.model),
                  max_tokens   |-> IF wrapArgs.max_tokens.given
                                   THEN wrapArgs.max_tokens.value
                                   ELSE default_max_tokens(wrapArgs.model),
                  model        |-> wrapArgs.model,
                  temperature  |-> wrapArgs.temperature]
            /\ UNCHANGED wrapRaised
    /\ UNCHANGED <<func, wrapArgs, engineLog, calls, lastCall>>
    /\ UNCHANGED streamVars

\* wrapper.py:92-106: one call wrapper(message); response is what the
\* endpoint answers if the engine sends a request during the call
EngineCall(messages, stop) ==
    [engine |-> wrapper.engine, model |-> wrapper.model, messages |-> messages,
     temperature |-> wrapper.temperature, stop |-> stop]

Result(k, text, flag, count, limit) ==
    [kind |-> k, text |-> text, flag |-> flag, count |-> count, limit |-> limit]

Invoke(message, response) ==
    /\ wrapper.made
    /\ calls < MaxCalls
    /\ calls' = calls + 1
    /\ LET messages == build_messages(wrapper.systemRole, wrapper.instructions, message)
           message_tokens_count == get_token_count(messages, wrapper.model)
           a == answer(response)
           outcome ==
             IF over_budget(message_tokens_count, wrapper.max_tokens)
             THEN Result("BudgetError", <<>>, FALSE, message_tokens_count, wrapper.max_tokens)
             ELSE IF wrapper.engine = "stream"
             THEN Result("generator", <<>>, FALSE, 0, 0)
             ELSE IF a.raised # "none"
             THEN Result(a.raised, <<>>, FALSE, 0, 0)
             ELSE IF wrapper.engine = "bool"
             THEN Result("bool", <<>>, bool_of_answer(a.text), 0, 0)
             ELSE Result("text", a.text, FALSE, 0, 0)
       IN
         /\ lastCall' = [made |-> TRUE, message |-> message,
                         response |-> response, outcome |-> outcome]
         /\ engineLog' =
              IF outcome.kind = "BudgetError" THEN engineLog
              ELSE Append(engineLog,
                          EngineCall(messages,
                                     IF wrapper.engine = "bool"
                                     THEN <<"true", "false">> ELSE <<>>))
    /\ UNCHANGED <<func, wrapArgs, wrapper, wrapRaised>>
    /\ UNCHANGED streamVars

WrapNext ==
    \/ Wrap
    \/ \E m \in UserMessages, r \in Responses : Invoke(m, r)

(***************************************************************************)
(* stream(): the generator.  Nothing of the body runs before the first     *)
(* next(); each next() runs loop iterations until one yields, breaks or    *)
(* raises.                                                                 *)
(***************************************************************************)
StreamInit ==
    /\ pc = "created"
    /\ connOpen = FALSE
    /\ data = ""
    /\ lines = <<>>
    /\ yielded = <<>>
    /\ loadsArgs = <<>>
    /\ raised = "none"
    /\ WrapIdle

\* first next(): urlopen returns the response (gpt.py:71-73)
Start ==
    /\ pc = "created"
    /\ pc' = "running"
    /\ connOpen' = TRUE
    /\ data' = ""
    /\ UNCHANGED <<lines, yielded, loadsArgs, raised>>
    /\ UNCHANGED wrapVars

\* first next(): urlopen raises (HTTP or transport error); nothing was opened
StartFail ==
    /\ pc = "created"
    /\ pc' = "error"
    /\ raised' = "URLError"
    /\ UNCHANGED <<connOpen, data, lines, yielded, loadsArgs>>
    /\ UNCHANGED wrapVars

\* a later next(): the generator resumes after the yield of gpt.py:103
Resume ==
    /\ pc = "suspended"
    /\ pc' = "running"
    /\ UNCHANGED <<connOpen, data, lines, yielded, loadsArgs, raised>>
    /\ UNCHANGED wrapVars

\* what readline() can return next: a line of the body, or "" from the end
\* of input on (and then "" again on every later read)
NextLines ==
    IF lines # <<>> /\ lines[Len(lines)] = EOF
    THEN {EOF}
    ELSE {EOF} \cup (IF Len(lines) < MaxLines THEN BodyLines ELSE {})

ReadLine(l) ==
    /\ pc = "running"
    /\ l \in NextLines
    /\ lines' = IF l = EOF /\ lines # <<>> /\ lines[Len(lines)] = EOF
                THEN lines ELSE Append(lines, l)
    /\ LET r == loop_iteration(data, l) IN
         /\ data' = r.data
         /\ loadsArgs' = loadsArgs \o r.parsed
         /\ yielded' = yielded \o r.frag
         /\ pc' = CASE r.kind = "continue" -> "running"
                    [] r.kind = "yield"    -> "suspended"
                    [] r.kind = "break"    -> "exhausted"
                    [] r.kind = "raise"    -> "error"
         /\ raised' = IF r.kind = "raise" THEN "JSONDecodeError" ELSE raised
         /\ connOpen' = IF r.kind \in {"break", "raise"}
                        THEN with_exit(connOpen) ELSE connOpen
    /\ UNCHANGED wrapVars

\* readline() raises a transport error (gpt.py:76)
ReadFail ==
    /\ pc = "running"
    /\ pc' = "error"
    /\ raised' = "OSError"
    /\ connOpen' = with_exit(connOpen)
    /\ UNCHANGED <<data, lines, yielded, loadsArgs>>
    /\ UNCHANGED wrapVars

\* the consumer abandons the sequence: close() on the generator
Close ==
    /\ pc \in {"created", "suspended"}
    /\ pc' = "closed"
    /\ connOpen' = IF pc = "suspended" THEN with_exit(connOpen) ELSE connOpen
    /\ UNCHANGED <<data, lines, yielded, loadsArgs, raised>>
    /\ UNCHANGED wrapVars

StreamNext ==
    \/ Start
    \/ StartFail
    \/ Resume
    \/ \E l \in BodyLines \cup {EOF} : ReadLine(l)
    \/ ReadFail
    \/ Close

(***************************************************************************)
(* Specifications                                                          *)
(***************************************************************************)
StreamSpec == StreamInit /\ [][StreamNext]_vars

WrapSpec == WrapInit /\ [][WrapNext]_vars

(***************************************************************************)
(* Properties of stream, stated over the history of lines read.            *)
(***************************************************************************)
IsDataLine(l)  == l.prefix = "data: " /\ l.term # ""
IsBlankLine(l) == l.prefix = "" /\ l.rest = "" /\ l.term # ""
IsBodyLine(l)  == l.term # ""

LastLine == lines[Len(lines)]

\* the content carried by a JSON payload, <<>> when its delta has none
ContentOf(text) ==
    IF \E d \in JsonDocs : d.text = text /\ "content" \in DOMAIN d.delta
    THEN <<(CHOOSE d \in JsonDocs : d.text = text).delta["content"]>>
    ELSE <<>>

IsJson(text) == \E d \in JsonDocs : d.text = text

\* an event as C1 words it: a data line immediately followed by a blank line
Finalized(i) ==
    /\ i < Len(lines)
    /\ IsDataLine(lines[i])
    /\ IsBlankLine(lines[i + 1])

FirstFinalizedDone ==
    IF \E i \in 1..Len(lines) : Finalized(i) /\ lines[i].rest = DoneText
    THEN CHOOSE i \in 1..Len(lines) :
           /\ Finalized(i) /\ lines[i].rest = DoneText
           /\ \A j \in 1..(i - 1) : ~(Finalized(j) /\ lines[j].rest = DoneText)
    ELSE Len(lines) + 1

RECURSIVE FinalizedContents(_)
FinalizedContents(n) ==
    IF n = 0 THEN <<>>
    ELSE FinalizedContents(n - 1)
         \o (IF Finalized(n) /\ IsJson(lines[n].rest)
             THEN ContentOf(lines[n].rest) ELSE <<>>)

\* C1 as stated: the fragments yielded are the contents of the finalized
\* JSON events (data line immediately followed by a blank line) that precede
\* the first finalized [DONE] event.
C1_AsStated == yielded = FinalizedContents(FirstFinalizedDone - 1)

\* The payload of a data line as the parser holds it: the text after
\* "data: " up to the line's last line feed, so with the carriage return of
\* a CRLF terminator.
HeldPayload(l) == IF l.term = CRLF THEN l.rest \o "\r" ELSE l.rest

Capturable(l) == IsDataLine(l) /\ HeldPayload(l) # ""

\* the number of capturable data lines in a row just before line i
RECURSIVE RunBefore(_)
RunBefore(i) ==
    IF i = 1 \/ ~Capturable(lines[i - 1]) THEN 0 ELSE 1 + RunBefore(i - 1)

\* line i is read while no payload is held, and is captured
Captured(i) == Capturable(lines[i]) /\ RunBefore(i) % 2 = 0

\* a captured data line immediately followed by a blank line
CapturedEvent(i) ==
    /\ i < Len(lines)
    /\ Captured(i)
    /\ IsBlankLine(lines[i + 1])

HeldDecodes(l) ==
    \E d \in JsonDocs : HeldPayload(l) = d.text \/ HeldPayload(l) = d.text \o "\r"

EndsSequence(i) ==
    CapturedEvent(i) /\ (HeldPayload(lines[i]) = DoneText \/ ~HeldDecodes(lines[i]))

FirstEnd ==
    IF \E i \in 1..Len(lines) : EndsSequence(i)
    THEN CHOOSE i \in 1..Len(lines) :
           EndsSequence(i) /\ \A j \in 1..(i - 1) : ~EndsSequence(j)
    ELSE Len(lines) + 1

RECURSIVE CapturedContents(_)
CapturedContents(n) ==
    IF n = 0 THEN <<>>
    ELSE CapturedContents(n - 1)
         \o (IF CapturedEvent(n) THEN ContentOf(lines[n].rest) ELSE <<>>)

\* C1 amended: the fragments yielded are, in arrival order, the contents of
\* the captured events (a data line with a non-empty payload read while no
\* payload is held, immediately followed by a blank line) that precede the
\* first captured event whose held payload is [DONE] or does not decode; an
\* event without content adds nothing and does not end the sequence: the
\* generator is exhausted only by a captured [DONE] event and raises a
\* decoding error only at a captured event that does not decode.
C1_FragmentsOfCapturedEvents ==
    /\ yielded = CapturedContents(FirstEnd - 1)
    /\ (pc = "exhausted")
         <=> (FirstEnd <= Len(lines) /\ HeldPayload(lines[FirstEnd]) = DoneText)
    /\ (raised = "JSONDecodeError")
         <=> (FirstEnd <= Len(lines) /\ HeldPayload(lines[FirstEnd]) # DoneText)

\* a role-only event was swallowed and a later event was still yielded
C1_Witness ==
    /\ Len(lines) = 4
    /\ lines[1].rest = DeltaRole /\ CapturedEvent(1)
    /\ CapturedEvent(3)
    /\ yielded = <<"Yo">>

\* C2: a non-blank line read while a payload is held discards the payload,
\* yields nothing, raises nothing and is not itself captured; a non-blank
\* non-data line read while nothing is held is ignored; from the no-data
\* state a data line is captured and a following blank line yields it.
C2_MalformedLinesReset ==
    [][ (pc = "running" /\ Len(lines') = Len(lines) + 1 /\ IsBodyLine(lines'[Len(lines')]))
        => LET l == lines'[Len(lines')] IN
           /\ (data # "" /\ ~IsBlankLine(l))
                => (data' = "" /\ yielded' = yielded /\ pc' = "running" /\ raised' = "none")
           /\ (data = "" /\ ~IsBlankLine(l) /\ ~IsDataLine(l))
                => (data' = "" /\ yielded' = yielded /\ pc' = "running" /\ raised' = "none")
           /\ (data = "" /\ IsDataLine(l))
                => (data' = HeldPayload(l) /\ pc' = "running")
           /\ (data # "" /\ IsBlankLine(l) /\ \E t \in {DeltaHi, DeltaYo} : data \in {t, t \o "\r"})
                => (\E t \in {DeltaHi, DeltaYo} :
                      /\ data \in {t, t \o "\r"}
                      /\ yielded' = yielded \o ContentOf(t))
      ]_vars

\* a data line arrived while a payload was held: both were dropped, and the
\* well-formed event after them was yielded
C2_Witness ==
    /\ Len(lines) = 4
    /\ lines[1].rest = DeltaHi /\ IsDataLine(lines[1])
    /\ lines[2].rest = DeltaHi /\ IsDataLine(lines[2])
    /\ lines[3].rest = DeltaYo
    /\ yielded = <<"Yo">>
    /\ raised = "none"

\* C3 as stated: once a [DONE] event is finalized (its data line captured,
\* then a blank line), the sequence has ended, nothing was read after the
\* blank line, and the payload of the [DONE] line was not handed to the JSON
\* parser.
C3_DoneTerminates ==
    \A i \in 1..Len(lines) :
        (CapturedEvent(i) /\ lines[i].rest = DoneText)
        => /\ pc = "exhausted"
           /\ Len(lines) = i + 1
           /\ \A k \in 1..Len(loadsArgs) : loadsArgs[k] # HeldPayload(lines[i])

\* the same, for a [DONE] line that ends in a bare line feed
C3_DoneTerminatesLF ==
    \A i \in 1..Len(lines) :
        (CapturedEvent(i) /\ lines[i].rest = DoneText /\ lines[i].term = LF)
        => /\ pc = "exhausted"
           /\ Len(lines) = i + 1
           /\ \A k \in 1..Len(loadsArgs) : loadsArgs[k] # DoneText

\* C8: in every end state of the call (exhausted, closed by the consumer,
\* or left by an exception) the connection is closed.
C8_ConnectionReleased ==
    pc \in {"exhausted", "closed", "error"} => ~connOpen

\* the consumer took a fragment and then closed the sequence
C8_Witness ==
    /\ pc = "closed"
    /\ Len(yielded) >= 1
    /\ lines # <<>>
    /\ ~connOpen

\* C10 as stated: when readline() has returned the empty line of end of
\* input, the read loop is left and the connection is released.
C10_EndOfInputTerminates ==
    (lines # <<>> /\ LastLine = EOF) => (pc # "running" /\ ~connOpen)

(***************************************************************************)
(* Properties of the wrapped callable.                                     *)
(***************************************************************************)
\* the budget as the specification words it
StatedBudget ==
    IF wrapArgs.max_tokens.given
    THEN wrapArgs.max_tokens.value
    ELSE (MAX_TOKENS[wrapArgs.model] * 7) \div 8

\* the token count of the two-message prompt of a call with argument m
PromptCount(m) ==
    get_token_count(<< [role |-> wrapper.systemRole, content |-> wrapper.instructions],
                       [role |-> "user", content |-> m] >>, wrapArgs.model)

\* C4: every call fails with the budget error, carrying the count and the
\* limit, exactly when the prompt's token count exceeds the budget; a failed
\* call invokes no engine, and a call at or under the budget invokes it once.
C4_BudgetGuard ==
    [][ calls' = calls + 1
        => LET c == PromptCount(lastCall'.message)
               o == lastCall'.outcome
           IN /\ (o.kind = "BudgetError") <=> (c > StatedBudget)
              /\ (c > StatedBudget)
                   => (o.count = c /\ o.limit = StatedBudget /\ engineLog' = engineLog)
              /\ (c <= StatedBudget)
                   => Len(engineLog') = Len(engineLog) + 1
      ]_vars

\* a first call exactly at the budget reached the engine, and a second call
\* of the same callable one token over it failed
C4_Witness ==
    /\ calls = 2
    /\ Len(engineLog) = 1
    /\ get_token_count(engineLog[1].messages, wrapArgs.model) = StatedBudget
    /\ lastCall.outcome.kind = "BudgetError"
    /\ lastCall.outcome.count = StatedBudget + 1
    /\ lastCall.outcome.limit = StatedBudget

\* C5 as stated: wrapping fails, with no callable and no engine call, exactly
\* when f lacks a non-empty docstring or its return annotation is not one of
\* str, Iterator[str], bool.
C5_ContractErrorsAtWrap ==
    (wrapper.made \/ wrapRaised # "none")
    => /\ (wrapRaised # "none")
            <=> ~( /\ func.hasDoc
                   /\ func.doc # <<>>
                   /\ func.ret \in {"str", "Iterator[str]", "bool"} )
       /\ (wrapRaised # "none") => (~wrapper.made /\ engineLog = <<>> /\ calls = 0)

\* the text, compared without regard to case, has t-r-u-e at some position
HasTrueIgnoringCase(text) ==
    \E i \in 1..(Len(text) - 3) :
        /\ text[i]     \in {"t", "T"}
        /\ text[i + 1] \in {"r", "R"}
        /\ text[i + 2] \in {"u", "U"}
        /\ text[i + 3] \in {"e", "E"}

\* C6: a boolean callable invokes the engine with stop = ["true", "false"]
\* and, when the engine returns a text, gives true exactly when the text,
\* lowercased, contains "true".
C6_BooleanAnswer ==
    /\ \A i \in 1..Len(engineLog) :
          (engineLog[i].engine = "bool") <=> (engineLog[i].stop = <<"true", "false">>)
    /\ (wrapper.made /\ wrapper.engine = "bool" /\ lastCall.made)
       => /\ engineLog # <<>> => func.ret = "bool"
          /\ (lastCall.outcome.kind \notin {"BudgetError", "OverflowError"})
               => /\ lastCall.outcome.kind = "bool"
                  /\ lastCall.outcome.flag
                       <=> HasTrueIgnoringCase(lastCall.response.content)
                  /\ lastCall.response.content = <<"T","r","u","e",".">>
                       => lastCall.outcome.flag
                  /\ lastCall.response.content
                       \in { <<"N","o",","," ","f","a","l","s","e",".">>,
                             <<"u","n","s","u","r","e">>, <<>> }
                       => ~lastCall.outcome.flag

\* the engine answered "True." and the callable returned true
C6_Witness ==
    /\ wrapper.made /\ wrapper.engine = "bool" /\ lastCall.made
    /\ lastCall.response.content = <<"T","r","u","e",".">>
    /\ lastCall.outcome.kind = "bool"
    /\ lastCall.outcome.flag
    /\ engineLog[Len(engineLog)].stop = <<"true", "false">>

\* C7: a call that reaches answer raises the truncation error and returns
\* no text exactly when finish_reason is "length"; otherwise a text callable
\* returns choices[0].message.content unchanged.
C7_NoTruncatedAnswer ==
    (wrapper.made /\ lastCall.made /\ wrapper.engine \in {"answer", "bool"}
       /\ lastCall.outcome.kind # "BudgetError")
    => /\ (lastCall.outcome.kind = "OverflowError")
            <=> (lastCall.response.finish_reason = "length")
       /\ (lastCall.response.finish_reason = "length")
            => (lastCall.outcome.text = <<>> /\ ~lastCall.outcome.flag)
       /\ (lastCall.response.finish_reason # "length" /\ wrapper.engine = "answer")
            => /\ lastCall.outcome.kind = "text"
               /\ lastCall.outcome.text = lastCall.response.content

\* a truncated completion with a non-empty text raised instead of returning
C7_Witness ==
    /\ wrapper.made /\ wrapper.engine = "answer" /\ lastCall.made
    /\ lastCall.response.finish_reason = "length"
    /\ lastCall.response.content # <<>>
    /\ lastCall.outcome.kind = "OverflowError"

\* C9: every engine invocation carries exactly [instruction, user message of
\* this call]; the instruction is the one of every earlier invocation and
\* its role is user for gpt-3.5-turbo and system for gpt-4; earlier
\* invocations are left as they were.
C9_TwoMessagesPerRequest ==
    [][ (calls' = calls + 1 /\ engineLog' # engineLog)
        => LET e == engineLog'[Len(engineLog')] IN
           /\ Len(engineLog') = Len(engineLog) + 1
           /\ Len(e.messages) = 2
           /\ e.messages[1].role =
                (IF wrapArgs.model = "gpt-3.5-turbo" THEN "user" ELSE "system")
           /\ e.messages[2] = [role |-> "user", content |-> lastCall'.message]
           /\ \A i \in 1..Len(engineLog) :
                 /\ engineLog'[i] = engineLog[i]
                 /\ engineLog[i].messages[1] = e.messages[1]
      ]_vars

\* two calls with different arguments reached the engine of a gpt-3.5-turbo
\* callable
C9_Witness ==
    /\ Len(engineLog) = 2
    /\ wrapArgs.model = "gpt-3.5-turbo"
    /\ engineLog[1].messages[2] # engineLog[2].messages[2]
    /\ engineLog[1].messages[1] = engineLog[2].messages[1]

====
